---- MODULE Spec2Model ----
(***************************************************************************)
(* Model of the NEAR contract `Posts` of contract/src/lib.rs: a Vec<Post>  *)
(* with new_post, get_posts, search_posts, delete_post, donate_author and  *)
(* get_donations.  Every call runs to completion before the next one (the  *)
(* contract is single threaded), so each method is one action.             *)
(*                                                                         *)
(* Strings that are only compared for equality (ids, account ids, bodies,  *)
(* image payloads) are TLA+ strings or numbers; titles and search strings  *)
(* are sequences of characters, because search_posts looks inside them.    *)
(* Option<T> is a sequence of length at most one: None is << >> and        *)
(* Some(x) is <<x>>.                                                       *)
(***************************************************************************)
EXTENDS Integers, Sequences, FiniteSets, TLC

VARIABLES posts, uuids, overflow_checks, last, paid

vars == <<posts, uuids, overflow_checks, last, paid>>

(***************************************************************************)
(* Bounds of the model.                                                    *)
(***************************************************************************)
\* Number of calls of Uuid::new_v4 in a behaviour.
MaxUuids == 3
\* u128::MAX, the largest value of U128 and Balance, scaled down from 2^128 - 1.
U128_MAX == 2
\* Number of posts in the behaviours that follow the transfers to their outcome.
MaxTransferPosts == 1

(***************************************************************************)
(* Types.                                                                  *)
(***************************************************************************)
U128 == 0 .. U128_MAX

None == << >>
Some(x) == <<x>>

\* The strings Uuid::new_v4().to_string() produces, in the order of the calls.
Uuid == 1 .. MaxUuids

AccountId == {"alice.near", "bob.near"}

\* A Post value.
Post(id, author, title, body, image, donation_amount) ==
    [id |-> id, author |-> author, title |-> title, body |-> body,
     image |-> image, donation_amount |-> donation_amount]

(***************************************************************************)
(* Inputs of the calls.                                                    *)
(***************************************************************************)
\* (predecessor account, title, body, image) of the new_post calls.
NewPostArgs ==
    { <<"alice.near", <<"t", "T">>, "body", None>>,
      <<"bob.near", <<"t", "X", "t">>, "body 1", Some("https://img/hero.webp")>> }

\* search_string of the search_posts calls.
SearchStrings ==
    { << >>, <<"X">>, <<"t", "T">>, <<"t", "t">> }

\* amount of the donate_author calls.
Amounts == {0, 1, U128_MAX}

(***************************************************************************)
(* Result of the last call, as its caller observes it: the method, its     *)
(* arguments, whether it panicked, its return value, the promises it       *)
(* created and the lines it logged.  `found` records whether post_id       *)
(* matched a post when the call started.  `caller` is the predecessor      *)
(* account of a new_post or delete_post call (the other calls are made by  *)
(* any account and never read it), and `deleted` lists the authors of the  *)
(* posts a delete_post call removed.                                       *)
(*                                                                         *)
(* `paid` maps the id of a post to the funds that the transfers requested  *)
(* by the donations to it have moved to its author, counted up to          *)
(* u128::MAX + 1.  No method reads or writes it.                           *)
(***************************************************************************)
AnyAccount == "*"

Outcome(op, args, found, panicked, ret, promises, logs) ==
    [op |-> op, args |-> args, found |-> found, panicked |-> panicked,
     ret |-> ret, promises |-> promises, logs |-> logs,
     caller |-> AnyAccount, deleted |-> << >>]

\* The authors of the posts of v with this id, in order.
RECURSIVE authors_of(_, _)
authors_of(v, post_id) ==
    IF v = << >> THEN << >>
    ELSE (IF Head(v).id = post_id THEN <<Head(v).author>> ELSE << >>)
             \o authors_of(Tail(v), post_id)

(***************************************************************************)
(* Posts::new                                                              *)
(***************************************************************************)
Init ==
    /\ posts = << >>
    /\ uuids = 0
    /\ overflow_checks \in BOOLEAN
    /\ last = Outcome("new", << >>, FALSE, FALSE, None, << >>, << >>)
    /\ paid = [id \in Uuid |-> 0]

(***************************************************************************)
(* Library functions the methods call.                                     *)
(***************************************************************************)
\* A generator that hands out again the smallest uuid no post carries.
new_v4_Recycled(n) ==
    LET free == {u \in 1 .. n : \A i \in 1 .. Len(posts) : posts[i].id # u}
    IN  IF free = {} THEN n + 1 ELSE CHOOSE u \in free : \A w \in free : u <= w

\* A generator that returns the same uuid at every call.
new_v4_Constant(n) == 1

\* Uuid::new_v4().to_string() at the call that follows n earlier calls: a
\* version 4 uuid differs from every uuid generated before it.
new_v4(n) == n + 1

\* str::starts_with: pat is a prefix of s.
starts_with(s, pat) ==
    /\ Len(pat) <= Len(s)
    /\ \A i \in 1 .. Len(pat) : s[i] = pat[i]

\* A search that only looks at the start of s.
contains_PrefixOnly(s, pat) == starts_with(s, pat)

\* str::contains: scan s from the left for a position where pat starts.
RECURSIVE contains(_, _)
contains(s, pat) ==
    IF starts_with(s, pat) THEN TRUE
    ELSE IF s = << >> THEN FALSE
    ELSE contains(Tail(s), pat)

\* Iterator::find over the posts with the predicate post.id == post_id:
\* the index of the first match from index i on, 0 when there is none.
RECURSIVE find_from(_, _, _)
find_from(v, post_id, i) ==
    IF i > Len(v) THEN 0
    ELSE IF v[i].id = post_id THEN i
    ELSE find_from(v, post_id, i + 1)

\* A lookup that falls back to the first post when no id matches.
find_OrFirst(v, post_id) ==
    IF find_from(v, post_id, 1) = 0 /\ Len(v) > 0 THEN 1
    ELSE find_from(v, post_id, 1)

find(v, post_id) == find_from(v, post_id, 1)

\* retain keeping the posts that match instead of the others.
retain_Inverted(v, post_id) == SelectSeq(v, LAMBDA post : post.id = post_id)

\* A removal by position that takes the first position when no id matches.
retain_OrFirst(v, post_id) ==
    IF \E i \in 1 .. Len(v) : v[i].id = post_id
    THEN SelectSeq(v, LAMBDA post : post.id # post_id)
    ELSE IF v = << >> THEN v
    ELSE Tail(v)

\* Vec::retain with the predicate post.id != post_id.
retain(v, post_id) == SelectSeq(v, LAMBDA post : post.id # post_id)

\* iter().filter(|post| post.title.contains(&search_string)).cloned().collect()
filter(v, search_string) ==
    SelectSeq(v, LAMBDA post : contains(post.title, search_string))

\* total_donation += amount_transfer on u128, when the sum does not fit:
\* the value the variable gets in a build without overflow checks.
wrapping_add(a, b) == (a + b) % (U128_MAX + 1)

\* write_image_to_ipfs: the results the call can have, Ok(res.hash) when the
\* IPFS node stores the data and Err(e) when the request fails.  No method of
\* Posts calls it.
ipfs_hash(image_url) == "Qm" \o image_url

write_image_to_ipfs(image_url) ==
    { [ok |-> TRUE, value |-> ipfs_hash(image_url)],
      [ok |-> FALSE, value |-> "ipfs_api::Error"] }

\* A new_post that unwraps the result of write_image_to_ipfs: it stores the
\* hash, and panics when the request fails.
new_post_Unwrap(caller, title, body, image) ==
    /\ uuids < MaxUuids
    /\ uuids' = uuids + 1
    /\ \/ /\ posts' = Append(posts, Post(new_v4(uuids), caller, title, body,
                                         IF image = None THEN None
                                         ELSE Some(ipfs_hash(image[1])), 0))
          /\ last' = [Outcome("new_post", <<title, body, image>>, FALSE, FALSE,
                              << >>, << >>, <<"Post Created Successfully">>)
                          EXCEPT !.caller = caller]
       \/ /\ image # None
          /\ posts' = posts
          /\ last' = [Outcome("new_post", <<title, body, image>>, FALSE, TRUE,
                              << >>, << >>, << >>)
                          EXCEPT !.caller = caller]
    /\ UNCHANGED <<overflow_checks, paid>>

\* A new_post that records a fixed account as the author.
new_post_FixedAuthor(caller, title, body, image) ==
    /\ uuids < MaxUuids
    /\ uuids' = uuids + 1
    /\ posts' = Append(posts, Post(new_v4(uuids), "alice.near", title, body,
                                   image, 0))
    /\ last' = [Outcome("new_post", <<title, body, image>>, FALSE, FALSE, << >>,
                        << >>, <<"Post Created Successfully">>)
                    EXCEPT !.caller = caller]
    /\ UNCHANGED <<overflow_checks, paid>>

\* A new_post that inserts the post at the front of the Vec.
new_post_Prepend(caller, title, body, image) ==
    /\ uuids < MaxUuids
    /\ uuids' = uuids + 1
    /\ posts' = <<Post(new_v4(uuids), caller, title, body, image, 0)>> \o posts
    /\ last' = [Outcome("new_post", <<title, body, image>>, FALSE, FALSE, << >>,
                        << >>, <<"Post Created Successfully">>)
                    EXCEPT !.caller = caller]
    /\ UNCHANGED <<overflow_checks, paid>>

(***************************************************************************)
(* Posts::new_post, called by predecessor account `caller`.                *)
(***************************************************************************)
new_post(caller, title, body, image) ==
    /\ uuids < MaxUuids
    /\ uuids' = uuids + 1
    /\ posts' = Append(posts, Post(new_v4(uuids), caller, title, body, image, 0))
    /\ last' = [Outcome("new_post", <<title, body, image>>, FALSE, FALSE, << >>,
                        << >>, <<"Post Created Successfully">>)
                    EXCEPT !.caller = caller]
    /\ UNCHANGED <<overflow_checks, paid>>

(***************************************************************************)
(* Posts::get_posts                                                        *)
(***************************************************************************)
get_posts ==
    /\ last' = Outcome("get_posts", << >>, FALSE, FALSE, posts, << >>, << >>)
    /\ UNCHANGED <<posts, uuids, overflow_checks, paid>>

\* A search that moves the matching posts out of the Vec.
search_posts_Drain(search_string) ==
    /\ last' = Outcome("search_posts", <<search_string>>, FALSE, FALSE,
                       filter(posts, search_string), << >>, << >>)
    /\ posts' = SelectSeq(posts, LAMBDA post : ~contains(post.title, search_string))
    /\ UNCHANGED <<uuids, overflow_checks, paid>>

(***************************************************************************)
(* Posts::search_posts                                                     *)
(***************************************************************************)
search_posts(search_string) ==
    /\ last' = Outcome("search_posts", <<search_string>>, FALSE, FALSE,
                       filter(posts, search_string), << >>, << >>)
    /\ UNCHANGED <<posts, uuids, overflow_checks, paid>>

\* A delete_post that only lets the author of a post remove it.
delete_post_AuthorOnly(caller, post_id) ==
    /\ posts' = SelectSeq(posts, LAMBDA post :
                              post.id # post_id \/ post.author # caller)
    /\ last' = [Outcome("delete_post", <<post_id>>, find(posts, post_id) # 0,
                        FALSE, << >>, << >>, << >>)
                    EXCEPT !.caller = caller,
                           !.deleted = authors_of(posts, post_id)]
    /\ UNCHANGED <<uuids, overflow_checks, paid>>

(***************************************************************************)
(* Posts::delete_post, called by predecessor account `caller`, which the   *)
(* method never reads.                                                     *)
(***************************************************************************)
delete_post(caller, post_id) ==
    /\ posts' = retain(posts, post_id)
    /\ last' = [Outcome("delete_post", <<post_id>>, find(posts, post_id) # 0,
                        FALSE, << >>, << >>, << >>)
                    EXCEPT !.caller = caller,
                           !.deleted = authors_of(posts, post_id)]
    /\ UNCHANGED <<uuids, overflow_checks, paid>>

\* A donate_author that also stores a fixed account as the post's author.
donate_author_SetsAuthor(post_id, amount) ==
    LET i == find(posts, post_id)
        args == <<post_id, amount>>
    IN  /\ IF i = 0
           THEN /\ last' = Outcome("donate_author", args, FALSE, FALSE, << >>, << >>,
                                   <<"Couldn't find post", post_id>>)
                /\ UNCHANGED posts
           ELSE IF posts[i].donation_amount + amount > U128_MAX /\ overflow_checks
           THEN /\ last' = Outcome("donate_author", args, TRUE, TRUE, << >>, << >>,
                                   << >>)
                /\ UNCHANGED posts
           ELSE /\ posts' = [posts EXCEPT ![i].donation_amount =
                                 wrapping_add(posts[i].donation_amount, amount),
                                           ![i].author = "alice.near"]
                /\ last' = Outcome("donate_author", args, TRUE, FALSE, << >>,
                                   <<[receiver_id |-> posts[i].author,
                                      amount |-> amount]>>,
                                   << >>)
        /\ UNCHANGED <<uuids, overflow_checks, paid>>

\* A donate_author that transfers the new total instead of the amount.
donate_author_TransfersTotal(post_id, amount) ==
    LET i == find(posts, post_id)
        args == <<post_id, amount>>
    IN  /\ IF i = 0
           THEN /\ last' = Outcome("donate_author", args, FALSE, FALSE, << >>, << >>,
                                   <<"Couldn't find post", post_id>>)
                /\ UNCHANGED posts
           ELSE IF posts[i].donation_amount + amount > U128_MAX /\ overflow_checks
           THEN /\ last' = Outcome("donate_author", args, TRUE, TRUE, << >>, << >>,
                                   << >>)
                /\ UNCHANGED posts
           ELSE /\ posts' = [posts EXCEPT ![i].donation_amount =
                                 wrapping_add(posts[i].donation_amount, amount)]
                /\ last' = Outcome("donate_author", args, TRUE, FALSE, << >>,
                                   <<[receiver_id |-> posts[i].author,
                                      amount |-> wrapping_add(posts[i].donation_amount, amount)]>>,
                                   << >>)
        /\ UNCHANGED <<uuids, overflow_checks, paid>>

\* A donate_author that returns early, without a promise, when amount is 0.
donate_author_SkipsZero(post_id, amount) ==
    LET i == find(posts, post_id)
        args == <<post_id, amount>>
    IN  /\ IF i = 0
           THEN /\ last' = Outcome("donate_author", args, FALSE, FALSE, << >>, << >>,
                                   <<"Couldn't find post", post_id>>)
                /\ UNCHANGED posts
           ELSE IF amount = 0
           THEN /\ last' = Outcome("donate_author", args, TRUE, FALSE, << >>, << >>,
                                   << >>)
                /\ UNCHANGED posts
           ELSE IF posts[i].donation_amount + amount > U128_MAX /\ overflow_checks
           THEN /\ last' = Outcome("donate_author", args, TRUE, TRUE, << >>, << >>,
                                   << >>)
                /\ UNCHANGED posts
           ELSE /\ posts' = [posts EXCEPT ![i].donation_amount =
                                 wrapping_add(posts[i].donation_amount, amount)]
                /\ last' = Outcome("donate_author", args, TRUE, FALSE, << >>,
                                   <<[receiver_id |-> posts[i].author,
                                      amount |-> amount]>>,
                                   << >>)
        /\ UNCHANGED <<uuids, overflow_checks, paid>>

(***************************************************************************)
(* Posts::donate_author.  The addition of line 79 panics when the sum      *)
(* exceeds u128::MAX in a build with overflow checks (the call ends there, *)
(* before the promise and the store) and wraps in a build without them.    *)
(* The signer account read into `donor` is never used.                     *)
(***************************************************************************)
donate_author(post_id, amount) ==
    LET i == find(posts, post_id)
        args == <<post_id, amount>>
    IN  /\ IF i = 0
           THEN /\ last' = Outcome("donate_author", args, FALSE, FALSE, << >>, << >>,
                                   <<"Couldn't find post", post_id>>)
                /\ UNCHANGED posts
           ELSE IF posts[i].donation_amount + amount > U128_MAX /\ overflow_checks
           THEN /\ last' = Outcome("donate_author", args, TRUE, TRUE, << >>, << >>,
                                   << >>)
                /\ UNCHANGED posts
           ELSE /\ posts' = [posts EXCEPT ![i].donation_amount =
                                 wrapping_add(posts[i].donation_amount, amount)]
                /\ last' = Outcome("donate_author", args, TRUE, FALSE, << >>,
                                   <<[receiver_id |-> posts[i].author,
                                      amount |-> amount]>>,
                                   << >>)
        /\ UNCHANGED <<uuids, overflow_checks, paid>>

\* A lookup that answers Some(0) when no post has the id.
get_donations_Zero(post_id) ==
    LET i == find(posts, post_id)
    IN  /\ last' = Outcome("get_donations", <<post_id>>, i # 0, FALSE,
                           IF i = 0 THEN Some(0) ELSE Some(posts[i].donation_amount),
                           << >>, << >>)
        /\ UNCHANGED <<posts, uuids, overflow_checks, paid>>

(***************************************************************************)
(* Posts::get_donations                                                    *)
(***************************************************************************)
get_donations(post_id) ==
    LET i == find(posts, post_id)
    IN  /\ last' = Outcome("get_donations", <<post_id>>, i # 0, FALSE,
                           IF i = 0 THEN None ELSE Some(posts[i].donation_amount),
                           << >>, << >>)
        /\ UNCHANGED <<posts, uuids, overflow_checks, paid>>

\* An outcome that takes a failed transfer back out of the donation total.
transfer_outcome_Rollback(ok) ==
    /\ last.op = "donate_author"
    /\ last.promises # << >>
    /\ LET id == last.args[1]
           amount == last.promises[1].amount
           i == find(posts, id)
       IN  /\ posts' = IF ok THEN posts
                       ELSE [posts EXCEPT ![i].donation_amount =
                                (@ + (U128_MAX + 1) - amount) % (U128_MAX + 1)]
           /\ paid' = IF ok
                      THEN [paid EXCEPT ![id] =
                               IF @ + amount > U128_MAX THEN U128_MAX + 1
                               ELSE @ + amount]
                      ELSE paid
           /\ last' = Outcome("transfer_outcome", last.args, TRUE, FALSE, <<ok>>,
                              << >>, << >>)
    /\ UNCHANGED <<uuids, overflow_checks>>

(***************************************************************************)
(* The transfer that donate_author requested at line 80 is executed after  *)
(* the call, and succeeds (ok) or fails.  The promise has no callback      *)
(* (no .then), so no code of the contract runs on either outcome.          *)
(***************************************************************************)
transfer_outcome(ok) ==
    /\ last.op = "donate_author"
    /\ last.promises # << >>
    /\ LET id == last.args[1]
           amount == last.promises[1].amount
       IN  /\ paid' = IF ok
                      THEN [paid EXCEPT ![id] =
                               IF @ + amount > U128_MAX THEN U128_MAX + 1
                               ELSE @ + amount]
                      ELSE paid
           /\ last' = Outcome("transfer_outcome", last.args, TRUE, FALSE, <<ok>>,
                              << >>, << >>)
    /\ UNCHANGED <<posts, uuids, overflow_checks>>

Next ==
    \/ \E a \in NewPostArgs : new_post(a[1], a[2], a[3], a[4])
    \/ get_posts
    \/ \E q \in SearchStrings : search_posts(q)
    \/ \E caller \in AccountId, id \in Uuid : delete_post(caller, id)
    \/ \E id \in Uuid, amount \in Amounts : donate_author(id, amount)
    \/ \E id \in Uuid : get_donations(id)

Spec == Init /\ [][Next]_vars

\* The calls that create posts and donate, each transfer followed to its
\* outcome, in a registry of at most MaxTransferPosts posts.
NextTransfer ==
    \/ \E a \in NewPostArgs :
          Len(posts) < MaxTransferPosts /\ new_post(a[1], a[2], a[3], a[4])
    \/ \E id \in Uuid, amount \in Amounts : donate_author(id, amount)
    \/ \E ok \in BOOLEAN : transfer_outcome(ok)

SpecTransfer == Init /\ [][NextTransfer]_vars

(***************************************************************************)
(* Vocabulary of the properties.                                           *)
(***************************************************************************)
\* The registry v holds a post with this id.
Has(v, id) == \E i \in 1 .. Len(v) : v[i].id = id

\* The donation total of the post of v with this id.
Total(v, id) == v[CHOOSE i \in 1 .. Len(v) : v[i].id = id].donation_amount

\* The position in v of the post with this id.
Position(v, id) == CHOOSE i \in 1 .. Len(v) : v[i].id = id

\* v without its k-th element.
Without(v, k) == SubSeq(v, 1, k - 1) \o SubSeq(v, k + 1, Len(v))

\* q occurs in t as a block of adjacent, equal characters.
IsSubstring(q, t) ==
    \E k \in 0 .. (Len(t) - Len(q)) : SubSeq(t, k + 1, k + Len(q)) = q

\* The step is a call op(args).
Called(op, args) == last'.op = op /\ last'.args = args

\* C1: a donate_author(id, amount) call on a post of the registry leaves the
\* post's donation total at its previous total plus amount, so that two calls
\* with a and b add a + b and the total is the sum of the amounts of all calls.
C1_DonationAddsAmount ==
    [][\A id \in Uuid, amount \in Amounts :
          (Called("donate_author", <<id, amount>>) /\ Has(posts, id))
              => /\ Has(posts', id)
                 /\ Total(posts', id) = Total(posts, id) + amount]_vars

\* C2: the donation total of a post never decreases while the post is in the
\* registry, and it grows by no more than the amount of a donate_author call
\* on that post that succeeded, so that it never exceeds the sum of them.
C2_DonationMonotone ==
    [][\A id \in Uuid :
          (Has(posts, id) /\ Has(posts', id))
              => /\ Total(posts', id) >= Total(posts, id)
                 /\ \/ Total(posts', id) = Total(posts, id)
                    \/ \E amount \in Amounts :
                          /\ Called("donate_author", <<id, amount>>)
                          /\ ~last'.panicked
                          /\ Total(posts', id) - Total(posts, id) <= amount]_vars

\* C3: a donate_author(id, amount) call on a post whose donation total plus
\* amount exceeds u128::MAX is rejected and leaves the registry unchanged.
C3_OverflowRejected ==
    [][\A id \in Uuid, amount \in Amounts :
          (/\ Called("donate_author", <<id, amount>>)
           /\ Has(posts, id)
           /\ Total(posts, id) + amount > U128_MAX)
              => last'.panicked /\ posts' = posts]_vars

\* C4: the ids of the posts of the registry are pairwise distinct: there are
\* as many ids as posts.
C4_IdsDistinct ==
    /\ \A i, j \in 1 .. Len(posts) : i # j => posts[i].id # posts[j].id
    /\ Cardinality({posts[i].id : i \in 1 .. Len(posts)}) = Len(posts)

\* A post was created after another was deleted, next to a surviving post.
C4_Witness ==
    /\ last.op = "new_post"
    /\ Len(posts) >= 2
    /\ uuids > Len(posts)

\* C5: delete_post(id) with the id of a post of the registry makes the
\* registry one shorter, leaves no post with that id and leaves the other
\* posts as they were and in the same order.
C5_DeleteRemovesExactlyOne ==
    [][\A id \in Uuid :
          (Called("delete_post", <<id>>) /\ Has(posts, id))
              => /\ Len(posts') = Len(posts) - 1
                 /\ ~Has(posts', id)
                 /\ posts' = Without(posts, Position(posts, id))]_vars

\* A post was deleted and two posts survive, one of them with donations.
C5_Witness ==
    /\ last.op = "delete_post"
    /\ last.found
    /\ Len(posts) >= 2
    /\ \E i \in 1 .. Len(posts) : posts[i].donation_amount > 0

\* C6: donate_author with an id of no post of the registry completes without
\* a panic, leaves the registry as it was and creates no transfer promise.
C6_DonateUnknownIsNoOp ==
    [][\A id \in Uuid, amount \in Amounts :
          (Called("donate_author", <<id, amount>>) /\ ~Has(posts, id))
              => /\ posts' = posts
                 /\ ~last'.panicked
                 /\ last'.promises = << >>]_vars

\* A positive amount was donated to an id of no post while posts existed.
C6_Witness ==
    /\ last.op = "donate_author"
    /\ ~last.found
    /\ last.args[2] > 0
    /\ Len(posts) >= 1

\* C7: delete_post with an id of no post of the registry completes without a
\* panic and leaves the registry exactly as it was.
C7_DeleteUnknownIsNoOp ==
    [][\A id \in Uuid :
          (Called("delete_post", <<id>>) /\ ~Has(posts, id))
              => posts' = posts /\ ~last'.panicked]_vars

\* delete_post ran with an id of no post while two posts existed.
C7_Witness ==
    /\ last.op = "delete_post"
    /\ ~last.found
    /\ Len(posts) >= 2

\* C8: a post created with an image payload has as image the content address
\* the resolver returns when it succeeds and no image when it fails; a post
\* created without payload has no image.
C8_ImageIsContentAddress ==
    last.op = "new_post" =>
        LET image == last.args[3]
            created == posts[Len(posts)]
        IN  IF image = None
            THEN created.image = None
            ELSE \E r \in write_image_to_ipfs(image[1]) :
                    created.image = (IF r.ok THEN Some(r.value) ELSE None)

\* C9: new_post never panics and leaves the registry with exactly one more
\* post than before, with or without an image payload.
C9_NewPostNeverFails ==
    [][last'.op = "new_post"
          => ~last'.panicked /\ Len(posts') = Len(posts) + 1]_vars

\* A post with an image payload was created in a registry that had a post.
C9_Witness ==
    /\ last.op = "new_post"
    /\ last.args[3] # None
    /\ ~last.panicked
    /\ Len(posts) >= 2

\* C10: search_posts(q) returns the posts of the registry whose title has q as
\* a substring, each once and in registry order, and nothing else; all posts
\* for the empty q and none when no title has q.
C10_SearchExact ==
    last.op = "search_posts" =>
        LET q == last.args[1]
            r == last.ret
        IN  /\ \A j \in 1 .. Len(r) :
                  /\ Has(posts, r[j].id)
                  /\ r[j] = posts[Position(posts, r[j].id)]
                  /\ IsSubstring(q, r[j].title)
            /\ \A j, k \in 1 .. Len(r) :
                  j < k => Position(posts, r[j].id) < Position(posts, r[k].id)
            /\ \A i \in 1 .. Len(posts) :
                  IsSubstring(q, posts[i].title)
                      => \E j \in 1 .. Len(r) : r[j] = posts[i]
            /\ (q = << >> => r = posts)
            /\ ((\A i \in 1 .. Len(posts) : ~IsSubstring(q, posts[i].title))
                    => r = << >>)

\* A search for a string inside a title returned some posts and not others.
C10_Witness ==
    /\ last.op = "search_posts"
    /\ last.args[1] = <<"X">>
    /\ Len(last.ret) >= 2
    /\ Len(last.ret) < Len(posts)

\* C11: get_donations(id) returns the current donation total of the post with
\* that id when the registry holds one, and None when it holds none, also
\* when the post with that id was deleted.
C11_GetDonationsExact ==
    last.op = "get_donations" =>
        LET id == last.args[1]
        IN  IF Has(posts, id)
            THEN last.ret = Some(Total(posts, id))
            ELSE last.ret = None

\* The total of a deleted post was asked for while another post, with
\* donations, is in the registry.
C11_Witness ==
    /\ last.op = "get_donations"
    /\ last.args[1] <= uuids
    /\ ~Has(posts, last.args[1])
    /\ last.ret = None
    /\ \E i \in 1 .. Len(posts) : posts[i].donation_amount > 0

\* C12: new_post appends exactly one post at the end of the registry, with
\* donation total 0, the caller as author and the given title and body, and
\* leaves the posts that were there unchanged and in the same order.
C12_NewPostAppends ==
    [][last'.op = "new_post" =>
          LET created == posts'[Len(posts')]
          IN  /\ Len(posts') = Len(posts) + 1
              /\ SubSeq(posts', 1, Len(posts)) = posts
              /\ created.donation_amount = 0
              /\ created.author = last'.caller
              /\ created.title = last'.args[1]
              /\ created.body = last'.args[2]]_vars

\* bob.near created a post behind a post that has donations.
C12_Witness ==
    /\ last.op = "new_post"
    /\ last.caller = "bob.near"
    /\ Len(posts) >= 2
    /\ posts[1].donation_amount > 0
    /\ posts[Len(posts)].author = "bob.near"

\* C13: get_posts returns every post of the registry exactly once and nothing
\* else, and the registry, hence the returned sequence, lists the posts in
\* the order of their creation (uuids are numbered in that order).
C13_GetPostsInCreationOrder ==
    /\ \A j, k \in 1 .. Len(posts) : j < k => posts[j].id < posts[k].id
    /\ last.op = "get_posts" =>
          /\ \A i \in 1 .. Len(posts) :
                Cardinality({j \in 1 .. Len(last.ret) : last.ret[j] = posts[i]}) = 1
          /\ \A j \in 1 .. Len(last.ret) :
                \E i \in 1 .. Len(posts) : last.ret[j] = posts[i]
          /\ \A j, k \in 1 .. Len(last.ret) :
                j < k => last.ret[j].id < last.ret[k].id

\* get_posts returned two posts, one with donations, after a post was deleted.
C13_Witness ==
    /\ last.op = "get_posts"
    /\ Len(last.ret) >= 2
    /\ uuids > Len(posts)
    /\ \E j \in 1 .. Len(last.ret) : last.ret[j].donation_amount > 0

\* C14: while a post is in the registry its id, author, title, body and image
\* stay the same; a donate_author call on the id of a post changes nothing
\* but the donation total of that post.
C14_OnlyDonationTotalChanges ==
    [][posts' = posts \/
       (/\ \A i \in 1 .. Len(posts), j \in 1 .. Len(posts') :
              posts[i].id = posts'[j].id =>
                  /\ posts'[j].author = posts[i].author
                  /\ posts'[j].title = posts[i].title
                  /\ posts'[j].body = posts[i].body
                  /\ posts'[j].image = posts[i].image
        /\ (last'.op = "donate_author" /\ Has(posts, last'.args[1])) =>
              /\ Len(posts') = Len(posts)
              /\ \A i \in 1 .. Len(posts) :
                    /\ posts[i].id # last'.args[1] => posts'[i] = posts[i]
                    /\ posts'[i] = [posts[i] EXCEPT !.donation_amount =
                                       posts'[i].donation_amount])]_vars

\* A donation reached the second of two posts by different authors.
C14_Witness ==
    /\ last.op = "donate_author"
    /\ last.found
    /\ ~last.panicked
    /\ last.args[2] > 0
    /\ Len(posts) >= 2
    /\ posts[1].author # posts[2].author
    /\ posts[2].id = last.args[1]
    /\ posts[2].donation_amount > 0

\* C15: once the post with an id was deleted (the uuid was generated and no
\* post carries it), no later registry holds a post with that id, whatever is
\* created afterwards, and get_donations for that id returns None.
C15_DeletedIdsStayAbsent ==
    [][/\ posts' = posts \/
          \A j \in 1 .. Len(posts') :
             posts'[j].id <= uuids => Has(posts, posts'[j].id)
       /\ (/\ last'.op = "get_donations"
           /\ last'.args[1] <= uuids
           /\ ~Has(posts, last'.args[1])) => last'.ret = None]_vars

\* A post was created while the id of a deleted post was free.
C15_Witness ==
    /\ last.op = "new_post"
    /\ Len(posts) >= 1
    /\ \E id \in Uuid : id < posts[Len(posts)].id /\ ~Has(posts, id)

\* C16 as stated: every donate_author(id, amount) call on a post of the
\* registry requests exactly one transfer, of amount to the post's author, and
\* when the sum fits the total grows by the amount of that transfer.
C16_EveryDonateTransfers ==
    [][\A id \in Uuid, amount \in Amounts :
          (Called("donate_author", <<id, amount>>) /\ Has(posts, id)) =>
              /\ last'.promises =
                    <<[receiver_id |-> posts[Position(posts, id)].author,
                       amount |-> amount]>>
              /\ (Total(posts, id) + amount <= U128_MAX
                     => Total(posts', id) = Total(posts, id) + amount)]_vars

\* C16 amended: every donate_author(id, amount) call on a post of the registry
\* that completes requests exactly one transfer, of amount to the post's
\* author, and a call that panics requests none and changes no total; when
\* the sum fits, the call completes and the total grows by the amount of the
\* transfer.
C16_CompletedDonateTransfers ==
    [][\A id \in Uuid, amount \in Amounts :
          (Called("donate_author", <<id, amount>>) /\ Has(posts, id)) =>
              /\ ~last'.panicked =>
                    last'.promises =
                        <<[receiver_id |-> posts[Position(posts, id)].author,
                           amount |-> amount]>>
              /\ last'.panicked => (last'.promises = << >> /\ posts' = posts)
              /\ (Total(posts, id) + amount <= U128_MAX
                     => /\ ~last'.panicked
                        /\ Total(posts', id) = Total(posts, id) + amount)]_vars

\* A second donation to a post completed and requested its transfer.
C16_Witness ==
    /\ last.op = "donate_author"
    /\ last.found
    /\ ~last.panicked
    /\ last.args[2] = 1
    /\ Has(posts, last.args[1])
    /\ Total(posts, last.args[1]) = 2
    /\ last.promises =
          <<[receiver_id |-> posts[Position(posts, last.args[1])].author,
             amount |-> 1]>>

\* C18: delete_post checks no authorization: for every caller the registry
\* after delete_post(id) is the registry before without the post with that
\* id, so an account that is not the author of a post can delete it.
C18_DeleteIgnoresCaller ==
    [][\A caller \in AccountId, id \in Uuid :
          (Called("delete_post", <<id>>) /\ last'.caller = caller) =>
              posts' = (IF Has(posts, id)
                        THEN Without(posts, Position(posts, id))
                        ELSE posts)]_vars

\* An account deleted the post of another author.
C18_Witness ==
    /\ last.op = "delete_post"
    /\ last.found
    /\ Len(last.deleted) = 1
    /\ last.deleted[1] # last.caller
    /\ ~Has(posts, last.args[1])

\* C19: get_posts, search_posts and get_donations leave the registry as it
\* was, for every argument: the same posts with the same fields in the same
\* order (what they return is a value of its own, not part of the registry).
C19_ReadsChangeNothing ==
    [][last'.op \in {"get_posts", "search_posts", "get_donations"}
          => posts' = posts /\ uuids' = uuids]_vars

\* A search returned posts with donations from a registry that still has them.
C19_Witness ==
    /\ last.op = "search_posts"
    /\ Len(last.ret) >= 1
    /\ last.ret[1].donation_amount > 0
    /\ Len(posts) >= 2

\* C20: donate_author(id, 0) on a post of the registry completes without a
\* panic, leaves the post's donation total (and the registry) unchanged and
\* requests a transfer of 0 to the post's author.
C20_ZeroDonation ==
    [][\A id \in Uuid :
          (Called("donate_author", <<id, 0>>) /\ Has(posts, id)) =>
              /\ ~last'.panicked
              /\ posts' = posts
              /\ last'.promises =
                    <<[receiver_id |-> posts[Position(posts, id)].author,
                       amount |-> 0]>>]_vars

\* 0 was donated to a post whose total is at u128::MAX.
C20_Witness ==
    /\ last.op = "donate_author"
    /\ last.found
    /\ last.args[2] = 0
    /\ Has(posts, last.args[1])
    /\ Total(posts, last.args[1]) = U128_MAX

\* C17: the ledger update of donate_author does not wait for the transfer: a
\* donate_author(id, amount) call that requests a transfer has already added
\* amount to the post's total (modulo 2^128), and the outcome of the transfer,
\* success or failure, changes no post; so a total can exceed the funds that
\* were actually transferred.
C17_LedgerIgnoresTransferOutcome ==
    [][/\ \A id \in Uuid, amount \in Amounts :
             (Called("donate_author", <<id, amount>>) /\ last'.promises # << >>)
                 => /\ Has(posts, id) /\ Has(posts', id)
                    /\ Total(posts', id) =
                          (Total(posts, id) + amount) % (U128_MAX + 1)
       /\ last'.op = "transfer_outcome" => posts' = posts]_vars

\* The transfer of a donation failed and the post's total exceeds the funds
\* transferred for it.
C17_Witness ==
    /\ last.op = "transfer_outcome"
    /\ last.ret = <<FALSE>>
    /\ Has(posts, last.args[1])
    /\ Total(posts, last.args[1]) > paid[last.args[1]]

====
